---- MODULE Spec2Model ----
(***************************************************************************)
(* Mono S3: the download endpoints, the storage layer they call and the    *)
(* lineage resolution that decides which record's policy governs a         *)
(* request.  Request handlers are asynchronous: every `await` is a point   *)
(* where other requests may run, so a handler is a process whose steps are *)
(* its awaited calls.                                                      *)
(***************************************************************************)
EXTENDS Integers, Sequences, FiniteSets, Bags, TLC

VARIABLES
    files,          \* the `files` table: a set of rows, unique by id
    downloadLogs,   \* the `download_logs` table, in insertion order
    reqs,           \* the in-flight and finished download requests
    now,            \* the wall clock (Date.now / MySQL NOW())
    objects,        \* the keys of the objects held by the S3 bucket
    tags,           \* the `tags` table, in insertion order
    fileTags,       \* the `file_tags` table, in insertion order
    exchange        \* what the last step answered and broadcast

vars == <<files, downloadLogs, reqs, now, objects, tags, fileTags, exchange>>

(***************************************************************************)
(* Bounds of the model.                                                    *)
(***************************************************************************)
MaxRequests == 2    \* download requests in the concurrent specification
MaxTime == 4        \* last clock value: bounds the lifecycle operations
MaxExpiry == 1      \* largest expiresAt drawn for a policy
MaxLimit == 1       \* largest maxDownloads / maxDownloadsPerUser drawn
MaxCount == 1       \* largest downloadCount a policy starts with
MaxNames == 2       \* longest list of tag names in one request
MaxCreatedAt == 1   \* latest createdAt of a drawn record set

(***************************************************************************)
(* Values.                                                                 *)
(***************************************************************************)
NULL == "null"          \* SQL NULL / JS undefined for ids
NullInt == -1           \* SQL NULL for the nullable int and timestamp columns
NullPin == <<NullInt>>  \* SQL NULL / undefined for a PIN string
Users == {"u1", "u2"}
FileIds == {"f1", "f2", "f3"}
Ips == {"ip1"}
ReqIds == 1..MaxRequests

\* PIN strings are sequences of characters (digits).
Pin1234 == <<1, 2, 3, 4>>
Pin1235 == <<1, 2, 3, 5>>
EmptyString == <<>>
StoredPins == {NullPin, EmptyString, Pin1234}
SuppliedPins == {NullPin, EmptyString, Pin1234, Pin1235}

File(id, userId, isPrivate, pin, expiresAt, maxDownloads, maxDownloadsPerUser, downloadCount, createdAt, parentId) ==
    [id |-> id, userId |-> userId, isPrivate |-> isPrivate, pin |-> pin,
     expiresAt |-> expiresAt, maxDownloads |-> maxDownloads,
     maxDownloadsPerUser |-> maxDownloadsPerUser,
     downloadCount |-> downloadCount, createdAt |-> createdAt,
     parentId |-> parentId]

\* `undefined` where a File is expected (no row selected).
NoFile == File(NULL, NULL, FALSE, NullPin, NullInt, NullInt, NullInt, 0, 0, NULL)

DownloadLog(fileId, userId, ipAddress) ==
    [fileId |-> fileId, userId |-> userId, ipAddress |-> ipAddress]

(***************************************************************************)
(* What a step sends: the HTTP response to the caller (its status and the  *)
(* rows of its JSON body) and the WebSocket events broadcast to every      *)
(* connected client.                                                       *)
(***************************************************************************)
\* const { pin, ...sanitized } = f  (the S3 key is not part of the model's rows)
WithoutPin(f) == [k \in (DOMAIN f) \ {"pin"} |-> f[k]]

Event(type, payload) == [type |-> type, payload |-> payload]
NoEvent == {}

\* list: the list of the request body (tag names, or the ids of a bulk delete)
Exchange(op, caller, id, list, status, rows, events) ==
    [op |-> op, caller |-> caller, id |-> id, list |-> list,
     status |-> status, rows |-> rows, events |-> events]
NoExchange == Exchange("none", NULL, NULL, <<>>, "none", {}, NoEvent)

\* broadcastNewFile / broadcastUpdateFile / broadcastDeleteFile
broadcastNewFile(file) == {Event("NEW_FILE", WithoutPin(file))}
broadcastUpdateFile(file) == {Event("UPDATE_FILE", WithoutPin(file))}
broadcastDeleteFile(fileId) == {Event("DELETE_FILE", [id |-> fileId])}

\* Every stored file has its object in the bucket, there are no tags yet and
\* nothing has been sent.
InitRest ==
    /\ objects = {f.id : f \in files}
    /\ tags = {}
    /\ fileTags = EmptyBag
    /\ exchange = NoExchange

\* A step that neither answers nor broadcasts, and leaves the bucket and the
\* tag tables alone.
Silent == exchange' = NoExchange /\ UNCHANGED <<objects, tags, fileTags>>

(***************************************************************************)
(* JavaScript truthiness of the values the handlers test.                  *)
(***************************************************************************)
TruthyInt(x) == x # NullInt /\ x # 0
TruthyString(s) == s # NullPin /\ s # EmptyString
OrEmpty(s) == IF TruthyString(s) THEN s ELSE EmptyString      \* pin || ""

(***************************************************************************)
(* compare: equal buffer lengths, then a bytewise constant-time equality.  *)
(***************************************************************************)
\* A faulty variant: the length test without the bytewise equality.
compareLengthOnly(a, b) == Len(a) = Len(b)

compare(a, b) ==
    /\ Len(a) = Len(b)
    /\ \A i \in 1..Len(a) : a[i] = b[i]

(***************************************************************************)
(* storage.ts                                                              *)
(***************************************************************************)
getFile(id) ==
    IF \E f \in files : f.id = id
    THEN CHOOSE f \in files : f.id = id
    ELSE NoFile

\* all.forEach(f => { if (f.parentId) childToParent.set(f.id, f.parentId) })
childToParent(all) ==
    [id \in {f.id : f \in {g \in all : g.parentId # NULL}} |->
        (CHOOSE f \in all : f.id = id).parentId]

\* The walk of getFileVersions' findRoot: follow parent links until a node
\* has none or was already visited.
RECURSIVE findRootWalk(_, _, _)
findRootWalk(c2p, root, visited) ==
    IF root \in DOMAIN c2p /\ root \notin visited
    THEN findRootWalk(c2p, c2p[root], visited \cup {root})
    ELSE root

findRoot(all, id) == findRootWalk(childToParent(all), id, {})

\* A faulty variant: the loop without its visited set.
walksOnUnvisited(c2p, root, visited) == root \in DOMAIN c2p

\* while (childToParent.has(root) && !visited.has(root)): the condition of
\* the loop of either findRoot.
walksOn(c2p, root, visited) == root \in DOMAIN c2p /\ root \notin visited

\* The loop of findRoot run for at most n iterations: where it stands, and
\* whether it has left the loop.
RECURSIVE findRootRun(_, _, _, _)
findRootRun(c2p, root, visited, n) ==
    IF n = 0 \/ ~walksOn(c2p, root, visited)
    THEN [root |-> root, visited |-> visited,
          halted |-> ~walksOn(c2p, root, visited)]
    ELSE findRootRun(c2p, c2p[root], visited \cup {root}, n - 1)

\* The rows of getFileVersions(id): every row that shares id's root.
getFileVersions(id) ==
    {f \in files : findRoot(files, f.id) = findRoot(files, id)}

\* getLatestVersionFile(id) = versions[0] after the descending sort by
\* createdAt.  The select has no ORDER BY and the sort is stable, so among
\* rows with the maximal createdAt whichever the database returned first
\* wins: the set of rows versions[0] can be.
getLatestVersionFile(id) ==
    {f \in getFileVersions(id) :
        \A g \in getFileVersions(id) : g.createdAt <= f.createdAt}

getUserDownloadCount(fileId, userId) ==
    Cardinality({i \in DOMAIN downloadLogs :
        /\ downloadLogs[i].fileId = fileId
        /\ downloadLogs[i].userId = userId})

\* The orders in which a select with ORDER BY created_at can return rows:
\* ascending by createdAt, rows of equal createdAt in any order.
OrderedByCreatedAt(rows) ==
    {seq \in [1..Cardinality(rows) -> rows] :
        /\ \A i, j \in DOMAIN seq : i < j => seq[i] # seq[j]
        /\ \A i, j \in DOMAIN seq : i < j => seq[i].createdAt <= seq[j].createdAt}

\* groupAndFilterFiles' findRoot: a cached root is returned as it is;
\* otherwise the walk, after which every node of the path and the root
\* itself are cached as leading to the root.
RECURSIVE findRootPath(_, _, _)
findRootPath(c2p, root, visited) ==
    IF root \in DOMAIN c2p /\ root \notin visited
    THEN findRootPath(c2p, c2p[root], visited \cup {root})
    ELSE [root |-> root, path |-> visited]

findRootCached(c2p, rootCache, id) ==
    IF id \in DOMAIN rootCache
    THEN [root |-> rootCache[id], rootCache |-> rootCache]
    ELSE LET w == findRootPath(c2p, id, {})
         IN  [root |-> w.root,
              rootCache |-> [k \in DOMAIN rootCache \cup w.path \cup {w.root} |->
                                IF k \in w.path \cup {w.root} THEN w.root
                                ELSE rootCache[k]]]

\* "3. Group by root": rows in their order; a row replaces the one kept for
\* its root when it is strictly newer.
RECURSIVE groupByRoot(_, _, _, _)
groupByRoot(c2p, seq, groups, rootCache) ==
    IF seq = <<>> THEN groups
    ELSE LET f == Head(seq)
             r == findRootCached(c2p, rootCache, f.id)
             keep == r.root \in DOMAIN groups
                        /\ ~(f.createdAt > groups[r.root].createdAt)
         IN  groupByRoot(c2p, Tail(seq),
                         IF keep THEN groups
                         ELSE [k \in DOMAIN groups \cup {r.root} |->
                                  IF k = r.root THEN f ELSE groups[k]],
                         r.rootCache)

\* The results groupAndFilterFiles can give for the rows of a select.
groupAndFilterFiles(rows) ==
    {LET groups == groupByRoot(childToParent(rows), seq, <<>>, <<>>)
     IN  {groups[k] : k \in DOMAIN groups} : seq \in OrderedByCreatedAt(rows)}

\* The rootId "3. Group by root" computes for each row, in the rows' order.
RECURSIVE rootIdsInOrder(_, _, _, _)
rootIdsInOrder(c2p, seq, rootIds, rootCache) ==
    IF seq = <<>> THEN rootIds
    ELSE LET f == Head(seq)
             r == findRootCached(c2p, rootCache, f.id)
         IN  rootIdsInOrder(c2p, Tail(seq),
                            [k \in DOMAIN rootIds \cup {f.id} |->
                                IF k = f.id THEN r.root ELSE rootIds[k]],
                            r.rootCache)

\* A faulty variant: the select without its where clause.
visibleRowsUnfiltered(all, userId) == all

\* getFiles(userId) on the rows of the files table: public rows and the
\* caller's own, grouped, the PIN kept only on rows whose userId is the
\* caller's.
visibleRows(all, userId) ==
    IF userId # NULL
    THEN {f \in all : ~f.isPrivate \/ f.userId = userId}
    ELSE {f \in all : ~f.isPrivate}

\* A faulty variant: the row as stored, whoever asks.
sanitizeForNobody(userId, f) == f

sanitizeFor(userId, f) ==
    IF userId # NULL /\ userId = f.userId THEN f ELSE WithoutPin(f)

getFiles(all, userId) ==
    {{sanitizeFor(userId, f) : f \in grouped} :
        grouped \in groupAndFilterFiles(visibleRows(all, userId))}

\* getUserFiles(userId): the caller's rows, grouped, as they are.
getUserFiles(userId) == groupAndFilterFiles({f \in files : f.userId = userId})

(***************************************************************************)
(* Tags.  A name is a string, a sequence of characters; the tags table is  *)
(* a set of rows (every insert has a fresh id), the file_tags table a bag  *)
(* of rows.                                                                *)
(***************************************************************************)
Tag(id, name) == [id |-> id, name |-> name]
FileTag(fileId, tagId) == [fileId |-> fileId, tagId |-> tagId]

\* String.prototype.toLowerCase and trim on the model's characters.
toLowerCase(str) ==
    [i \in DOMAIN str |-> IF str[i] = "A" THEN "a"
                          ELSE IF str[i] = "B" THEN "b" ELSE str[i]]

RECURSIVE trimStart(_)
trimStart(str) ==
    IF str # <<>> /\ Head(str) = " " THEN trimStart(Tail(str)) ELSE str

RECURSIVE trimEnd(_)
trimEnd(str) ==
    IF str # <<>> /\ str[Len(str)] = " "
    THEN trimEnd(SubSeq(str, 1, Len(str) - 1)) ELSE str

trim(str) == trimEnd(trimStart(str))

\* const normalized = name.toLowerCase().trim()
normalized(name) == trim(toLowerCase(name))

\* A faulty variant: the lookup that finds no tag.
selectTagByNameNone(rows, name) == {}

\* db.select().from(tags).where(eq(tags.name, normalized))
selectTagByName(rows, name) == {t \in rows : t.name = name}

\* One round of addTagsToFile's loop on the two tables: get or create the
\* tag of the normalized name (randomUUID gives an id no row has), then
\* insert the link unless it exists.
addTagToFile(db, fileId, name) ==
    LET found == selectTagByName(db.tags, normalized(name))
        tag == IF found = {}
               THEN Tag(Cardinality(db.tags) + 1, normalized(name))
               ELSE CHOOSE t \in found : TRUE
        link == FileTag(fileId, tag.id)
    IN  [tags |-> db.tags \cup {tag},
         fileTags |-> IF BagIn(link, db.fileTags) THEN db.fileTags
                      ELSE db.fileTags (+) SetToBag({link})]

RECURSIVE addTagsToFile(_, _, _)
addTagsToFile(db, fileId, tagNames) ==
    IF tagNames = <<>> THEN db
    ELSE addTagsToFile(addTagToFile(db, fileId, Head(tagNames)), fileId,
                       Tail(tagNames))

\* getFileWithTags: the row and the names of the tags linked to it.
getFileWithTags(db, file) ==
    LET names == {t.name : t \in {x \in db.tags :
                                    BagIn(FileTag(file.id, x.id), db.fileTags)}}
    IN  [k \in DOMAIN file \cup {"tags"} |->
            IF k = "tags" THEN names ELSE file[k]]

(***************************************************************************)
(* The rules of the download handlers, each as the handler writes it.      *)
(* A rule yields the response it sends, or "pass".                         *)
(***************************************************************************)
\* A faulty variant: the veto for private heads only.
previewVetoPrivateOnly(p, isPreview) == p.isPrivate /\ isPreview

\* (securityPolicy.isPrivate || securityPolicy.pin) && isPreview
previewVeto(p, isPreview) ==
    (p.isPrivate \/ TruthyString(p.pin)) /\ isPreview

\* GET /api/files/:id/download, "2. Check Privacy & PIN"
privacyPinApi(p, isOwner, pin) ==
    IF p.isPrivate
    THEN IF ~isOwner /\ (~TruthyString(p.pin) \/ ~compare(p.pin, OrEmpty(pin)))
         THEN "AccessDenied" ELSE "pass"
    ELSE IF TruthyString(p.pin) /\ ~isOwner /\ ~compare(p.pin, OrEmpty(pin))
         THEN "InvalidPin" ELSE "pass"

\* GET /link/:id, "3. Check and Prompt for PIN"
privacyPinLink(p, isOwner, pin) ==
    LET requiresPin == (p.isPrivate \/ TruthyString(p.pin)) /\ ~isOwner
        pinValid == TruthyString(pin) /\ TruthyString(p.pin) /\ compare(p.pin, pin)
    IN  IF requiresPin /\ ~pinValid
        THEN IF p.isPrivate /\ ~TruthyString(p.pin)
             THEN "AccessDenied" ELSE "PinPage"
        ELSE "pass"

\* GET /link/:id/:filename, "2. Apply the same security logic"
privacyPinLinkFile(p, isOwner, pin) ==
    IF p.isPrivate
    THEN IF ~isOwner /\ (~TruthyString(p.pin) \/ ~compare(p.pin, OrEmpty(pin)))
         THEN IF TruthyString(p.pin) /\ ~TruthyString(pin)
              THEN "PinRedirect" ELSE "AccessDenied"
         ELSE "pass"
    ELSE IF TruthyString(p.pin) /\ ~isOwner /\ ~compare(p.pin, OrEmpty(pin))
         THEN IF ~TruthyString(pin) THEN "PinRedirect" ELSE "InvalidPin"
         ELSE "pass"

\* securityPolicy.expiresAt && new Date(expiresAt).getTime() < Date.now()
expired(p, t) == p.expiresAt # NullInt /\ p.expiresAt < t

\* securityPolicy.maxDownloads && downloadCount >= maxDownloads
downloadLimitReached(p) ==
    TruthyInt(p.maxDownloads) /\ p.downloadCount >= p.maxDownloads

\* The limit block: "if (!isPreview) { ... }".  "CheckUser" stands for the
\* awaited getUserDownloadCount that follows.
limitChecks(p, isAuth, isPreview, authResponse) ==
    IF isPreview THEN "pass"
    ELSE IF downloadLimitReached(p) THEN "LimitReached"
    ELSE IF TruthyInt(p.maxDownloadsPerUser)
         THEN IF ~isAuth THEN authResponse ELSE "CheckUser"
         ELSE "pass"

\* The first rule that does not pass, in the order given.
RECURSIVE firstFailing(_)
firstFailing(results) ==
    IF results = <<>> THEN "pass"
    ELSE IF Head(results) # "pass" THEN Head(results)
    ELSE firstFailing(Tail(results))

veto(p, isPreview) == IF previewVeto(p, isPreview) THEN "PreviewDisabled" ELSE "pass"
expiry(p, t) == IF expired(p, t) THEN "LinkExpired" ELSE "pass"

\* The synchronous checks of each handler between getLatestVersionFile and
\* the next await, in the order the handler makes them.
checksApi(p, isOwner, isAuth, isPreview, pin, t) ==
    firstFailing(<<veto(p, isPreview),
                   privacyPinApi(p, isOwner, pin),
                   expiry(p, t),
                   limitChecks(p, isAuth, isPreview, "AuthRequired")>>)

checksLink(p, isOwner, isAuth, isPreview, pin, t) ==
    firstFailing(<<veto(p, isPreview),
                   expiry(p, t),
                   privacyPinLink(p, isOwner, pin),
                   limitChecks(p, isAuth, isPreview, "LoginRedirect")>>)

checksLinkFile(p, isOwner, isAuth, isPreview, pin, t) ==
    firstFailing(<<veto(p, isPreview),
                   privacyPinLinkFile(p, isOwner, pin),
                   expiry(p, t),
                   limitChecks(p, isAuth, isPreview, "LoginRedirect")>>)

Endpoints == {"api", "link", "linkfile"}

checks(ep, p, isOwner, isAuth, isPreview, pin, t) ==
    CASE ep = "api" -> checksApi(p, isOwner, isAuth, isPreview, pin, t)
      [] ep = "link" -> checksLink(p, isOwner, isAuth, isPreview, pin, t)
      [] ep = "linkfile" -> checksLinkFile(p, isOwner, isAuth, isPreview, pin, t)

(***************************************************************************)
(* A download request: its parameters, the handler's locals and position.  *)
(***************************************************************************)
Request(pc, ep, id, user, ip, isPreview, pin, file, securityPolicy, outcome) ==
    [pc |-> pc, ep |-> ep, id |-> id, user |-> user, ip |-> ip,
     isPreview |-> isPreview, pin |-> pin, file |-> file,
     securityPolicy |-> securityPolicy, outcome |-> outcome]

IdleRequest ==
    Request("idle", "none", NULL, NULL, NULL, FALSE, NullPin, NoFile, NoFile, "none")

isAuthenticated(r) == reqs[r].user # NULL
isOwner(r, p) == isAuthenticated(r) /\ reqs[r].user = p.userId

\* The handler has answered: its locals are gone, the request's parameters
\* and its outcome remain.
Answered(q, outcome) ==
    [q EXCEPT !.pc = "done", !.outcome = outcome,
              !.file = NoFile, !.securityPolicy = NoFile]

Finish(r, outcome) == reqs' = [reqs EXCEPT ![r] = Answered(reqs[r], outcome)]

\* const file = await storage.getFile(fileId); if (!file) -> 404
GetFile(r, ep, id, user, ip, isPreview, pin) ==
    /\ reqs[r].pc = "idle"
    /\ LET file == getFile(id)
           started == Request("latest", ep, id, user, ip, isPreview, pin,
                              file, NoFile, "none")
       IN  reqs' = [reqs EXCEPT ![r] =
                IF file = NoFile THEN Answered(started, "NotFound") ELSE started]
    /\ UNCHANGED <<files, downloadLogs, now>>
    /\ Silent

\* const latestVersion = await storage.getLatestVersionFile(file.id);
\* const securityPolicy = latestVersion || file;  then the rules up to the
\* next await.
ResolvePolicy(r) ==
    /\ reqs[r].pc = "latest"
    /\ LET q == reqs[r]
           latest == getLatestVersionFile(q.file.id)
       IN  \E p \in (IF latest = {} THEN {q.file} ELSE latest) :
             LET res == checks(q.ep, p, isOwner(r, p), isAuthenticated(r),
                               q.isPreview, q.pin, now)
             IN  reqs' = [reqs EXCEPT ![r] =
                    CASE res = "pass" ->
                           [q EXCEPT !.securityPolicy = p, !.pc = "presign"]
                      [] res = "CheckUser" ->
                           [q EXCEPT !.securityPolicy = p, !.pc = "count"]
                      [] OTHER -> Answered(q, res)]
    /\ UNCHANGED <<files, downloadLogs, now>>
    /\ Silent

\* const userDownloadCount = await storage.getUserDownloadCount(
\*     securityPolicy.id, currentUserId)
CheckUserLimit(r) ==
    /\ reqs[r].pc = "count"
    /\ LET q == reqs[r]
           userDownloadCount == getUserDownloadCount(q.securityPolicy.id, q.user)
       IN  reqs' = [reqs EXCEPT ![r] =
              IF userDownloadCount >= q.securityPolicy.maxDownloadsPerUser
              THEN Answered(q, "UserLimitReached")
              ELSE [q EXCEPT !.pc = "presign"]]
    /\ UNCHANGED <<files, downloadLogs, now>>
    /\ Silent

\* A faulty variant: a preview is counted like a download.
PresignCountsPreviews(r) ==
    /\ reqs[r].pc = "presign"
    /\ reqs' = [reqs EXCEPT ![r].pc = "increment"]
    /\ UNCHANGED <<files, downloadLogs, now>>
    /\ Silent

\* const url = await getPresignedDownloadUrl(...); a preview redirects at once.
Presign(r) ==
    /\ reqs[r].pc = "presign"
    /\ reqs' = [reqs EXCEPT ![r] =
          IF reqs[r].isPreview
          THEN Answered(reqs[r], "Granted")
          ELSE [reqs[r] EXCEPT !.pc = "increment"]]
    /\ UNCHANGED <<files, downloadLogs, now>>
    /\ Silent

\* A faulty variant: the counter raised only while it is below the limit.
incrementedRowsBelowLimit(fileId, snapshot) ==
    {IF f.id = fileId /\ ~(f.maxDownloads # NullInt /\ f.downloadCount >= f.maxDownloads)
     THEN [f EXCEPT !.downloadCount = f.downloadCount + 1]
     ELSE f : f \in files}

\* A faulty variant: the new count computed from the row the handler read.
incrementedRowsFromSnapshot(fileId, snapshot) ==
    {IF f.id = fileId THEN [f EXCEPT !.downloadCount = snapshot.downloadCount + 1]
     ELSE f : f \in files}

\* incrementDownloadCount, first statement:
\* UPDATE files SET download_count = download_count + 1 WHERE id = fileId
incrementedRows(fileId, snapshot) ==
    {IF f.id = fileId THEN [f EXCEPT !.downloadCount = f.downloadCount + 1]
     ELSE f : f \in files}

\* A faulty variant: the governing record counted instead of the requested.
countedFileIdOfPolicy(q) == q.securityPolicy.id

\* storage.incrementDownloadCount(file.id, currentUserId, req.ip)
countedFileId(q) == q.file.id

IncrementDownloadCount(r) ==
    /\ reqs[r].pc = "increment"
    /\ files' = incrementedRows(countedFileId(reqs[r]), reqs[r].file)
    /\ reqs' = [reqs EXCEPT ![r].pc = "log"]
    /\ UNCHANGED <<downloadLogs, now>>
    /\ Silent

\* incrementDownloadCount, second statement: INSERT INTO download_logs
loggedEntry(q) == DownloadLog(countedFileId(q), q.user, q.ip)

InsertDownloadLog(r) ==
    /\ reqs[r].pc = "log"
    /\ downloadLogs' = Append(downloadLogs, loggedEntry(reqs[r]))
    /\ reqs' = [reqs EXCEPT ![r].pc = "select"]
    /\ UNCHANGED <<files, now>>
    /\ Silent

\* incrementDownloadCount, third statement (re-select the row), then
\* broadcastUpdateFile(updatedFile) and res.redirect(url).  broadcastUpdateFile
\* destructures its argument, so an undefined row throws and the handler's
\* catch answers 500.
Respond(r) ==
    /\ reqs[r].pc = "select"
    /\ LET updatedFile == getFile(countedFileId(reqs[r]))
       IN  IF updatedFile = NoFile
           THEN /\ Finish(r, "ServerError")
                /\ exchange' = Exchange("download", reqs[r].user, reqs[r].id, <<>>,
                                        "ServerError", {}, NoEvent)
           ELSE /\ Finish(r, "Granted")
                /\ exchange' = Exchange("download", reqs[r].user, reqs[r].id, <<>>,
                                        "Granted", {}, broadcastUpdateFile(updatedFile))
    /\ UNCHANGED <<files, downloadLogs, now, objects, tags, fileTags>>

\* getPresignedDownloadUrl rejects (the object store cannot be reached): the
\* handler's catch answers 500 before incrementDownloadCount is called.
PresignFails(r) ==
    /\ reqs[r].pc = "presign"
    /\ Finish(r, "ServerError")
    /\ exchange' = Exchange("download", reqs[r].user, reqs[r].id, <<>>,
                            "ServerError", {}, NoEvent)
    /\ UNCHANGED <<files, downloadLogs, now, objects, tags, fileTags>>

\* incrementDownloadCount, second statement, when the INSERT rejects: the
\* method throws after its UPDATE (no transaction encloses the two), the
\* handler's catch answers 500, nothing is broadcast.
InsertDownloadLogFails(r) ==
    /\ reqs[r].pc = "log"
    /\ Finish(r, "ServerError")
    /\ exchange' = Exchange("download", reqs[r].user, reqs[r].id, <<>>,
                            "ServerError", {}, NoEvent)
    /\ UNCHANGED <<files, downloadLogs, now, objects, tags, fileTags>>

Step(r) ==
    \/ ResolvePolicy(r)
    \/ CheckUserLimit(r)
    \/ Presign(r)
    \/ IncrementDownloadCount(r)
    \/ InsertDownloadLog(r)
    \/ Respond(r)

(***************************************************************************)
(* SpecPolicy: one request against a two-record lineage whose head carries *)
(* any policy of the bounded domain.                                       *)
(***************************************************************************)
Repeat(e, k) == [i \in 1..k |-> e]

PolicyStores ==
    {<<{File("f1", "u1", FALSE, NullPin, NullInt, NullInt, NullInt, 0, 0, NULL),
        File("f2", "u1", isPrivate, pin, expiresAt, maxDownloads,
             maxDownloadsPerUser, downloadCount, 1, "f1")},
       Repeat(DownloadLog("f2", "u1", "ip1"), MaxCount - k)
          \o Repeat(DownloadLog("f2", "u2", "ip1"), k)>> :
        isPrivate \in BOOLEAN, pin \in StoredPins,
        expiresAt \in {NullInt} \cup 0..MaxExpiry,
        maxDownloads \in {NullInt} \cup 0..MaxLimit,
        maxDownloadsPerUser \in {NullInt} \cup 0..MaxLimit,
        downloadCount \in 0..MaxCount, k \in 0..MaxCount}

InitPolicy ==
    /\ \E s \in PolicyStores :
          /\ files = s[1]
          /\ downloadLogs = s[2]
    /\ reqs = [r \in ReqIds |-> IdleRequest]
    /\ now = 1
    /\ InitRest

NextPolicy ==
    \/ \E ep \in Endpoints, id \in {"f1", "f2"}, user \in Users \cup {NULL},
          isPreview \in BOOLEAN, pin \in SuppliedPins :
            GetFile(1, ep, id, user, "ip1", isPreview, pin)
    \/ Step(1)

SpecPolicy == InitPolicy /\ [][NextPolicy]_vars

(***************************************************************************)
(* The file lifecycle: POST /api/files and DELETE /api/files/:id.          *)
(***************************************************************************)
Policy(isPrivate, pin, expiresAt, maxDownloads, maxDownloadsPerUser) ==
    [isPrivate |-> isPrivate, pin |-> pin, expiresAt |-> expiresAt,
     maxDownloads |-> maxDownloads, maxDownloadsPerUser |-> maxDownloadsPerUser]

\* POST /api/files (isAuthenticated): the id and parentId come from the
\* request body, userId from the session, createdAt from the column default.
\* A parent must exist and belong to the caller; the insert fails on a
\* duplicate primary key.
CreateFile(user, id, parentId, policy) ==
    /\ getFile(id) = NoFile
    /\ parentId # NULL =>
          /\ getFile(parentId) # NoFile
          /\ getFile(parentId).userId = user
    /\ LET file == File(id, user, policy.isPrivate, policy.pin, policy.expiresAt,
                        policy.maxDownloads, policy.maxDownloadsPerUser, 0, now,
                        parentId)
       IN  /\ files' = files \cup {file}
           /\ exchange' = Exchange("create", user, id, <<>>, "OK", {file},
                                   broadcastNewFile(file))
    /\ objects' = objects \cup {id}
    /\ UNCHANGED <<downloadLogs, reqs, tags, fileTags>>

\* A faulty variant: a deleteFromS3 that throws ends the request.
goesOnAfterS3OnlyIfReleased(released) == released

\* try { await deleteFromS3(file.key) } catch (error) { console.error(...) }:
\* the handler goes on whether or not the object was released.
goesOnAfterS3(released) == TRUE

\* DELETE /api/files/:id (isAuthenticated): 404 for no row, 403 for a caller
\* who is not the owner.  deleteFromS3 may throw (released = FALSE): the
\* handler logs it and goes on.  storage.deleteFile removes the one row and
\* nothing else; the deletion is broadcast and the answer is 204.
DeleteFile(user, id, released) ==
    /\ LET file == getFile(id)
       IN  CASE file = NoFile ->
                  /\ exchange' = Exchange("delete", user, id, <<>>, "NotFound", {},
                                          NoEvent)
                  /\ UNCHANGED <<files, objects>>
             [] file # NoFile /\ file.userId # user ->
                  /\ exchange' = Exchange("delete", user, id, <<>>,
                                          "PermissionDenied", {}, NoEvent)
                  /\ UNCHANGED <<files, objects>>
             [] file # NoFile /\ file.userId = user /\ ~goesOnAfterS3(released) ->
                  /\ exchange' = Exchange("delete", user, id, <<>>, "ServerError",
                                          {}, NoEvent)
                  /\ UNCHANGED <<files, objects>>
             [] OTHER ->
                  /\ objects' = IF released THEN objects \ {id} ELSE objects
                  /\ files' = files \ {file}
                  /\ exchange' = Exchange("delete", user, id, <<>>, "NoContent", {},
                                          broadcastDeleteFile(id))
    /\ UNCHANGED <<downloadLogs, reqs, tags, fileTags>>

\* PATCH /api/files/:id (isAuthenticated): 404 for no row, 403 for a caller
\* who is not the owner; otherwise the policy columns named in the body are
\* set (a limit given as a falsy number becomes NULL), parentId is not among
\* them, the updated row is answered and broadcast.
UpdateFile(user, id, policy) ==
    /\ LET file == getFile(id)
           updatedFile ==
               [file EXCEPT !.isPrivate = policy.isPrivate,
                            !.pin = policy.pin,
                            !.expiresAt = policy.expiresAt,
                            !.maxDownloads =
                                IF TruthyInt(policy.maxDownloads)
                                THEN policy.maxDownloads ELSE NullInt,
                            !.maxDownloadsPerUser =
                                IF TruthyInt(policy.maxDownloadsPerUser)
                                THEN policy.maxDownloadsPerUser ELSE NullInt]
       IN  CASE file = NoFile ->
                  /\ exchange' = Exchange("update", user, id, <<>>, "NotFound", {},
                                          NoEvent)
                  /\ UNCHANGED files
             [] file # NoFile /\ file.userId # user ->
                  /\ exchange' = Exchange("update", user, id, <<>>,
                                          "PermissionDenied", {}, NoEvent)
                  /\ UNCHANGED files
             [] OTHER ->
                  /\ files' = (files \ {file}) \cup {updatedFile}
                  /\ exchange' = Exchange("update", user, id, <<>>, "OK",
                                          {updatedFile},
                                          broadcastUpdateFile(updatedFile))
    /\ UNCHANGED <<downloadLogs, reqs, objects, tags, fileTags>>

\* GET /api/files: the session's user id, or undefined for an anonymous
\* caller, goes to storage.getFiles and the result is the JSON body.
ListFiles(caller) ==
    /\ \E rows \in getFiles(files, caller) :
          exchange' = Exchange("list", caller, NULL, <<>>, "OK", rows, NoEvent)
    /\ UNCHANGED <<files, downloadLogs, reqs, now, objects, tags, fileTags>>

\* GET /api/stats (isAuthenticated): the statistics are computed from
\* storage.getUserFiles(userId); the rows are the files they are computed from.
GetStats(user) ==
    /\ \E rows \in getUserFiles(user) :
          exchange' = Exchange("stats", user, NULL, <<>>, "OK", rows, NoEvent)
    /\ UNCHANGED <<files, downloadLogs, reqs, now, objects, tags, fileTags>>

\* GET /api/files/:id/versions: 404 for no row, 403 when the requested row is
\* private and the caller is not its owner; otherwise every row of
\* getFileVersions, without its PIN unless the caller owns the requested row.
GetVersions(caller, id) ==
    /\ LET file == getFile(id)
           isOwnerOfFile == caller # NULL /\ caller = file.userId
       IN  exchange' =
             CASE file = NoFile ->
                    Exchange("versions", caller, id, <<>>, "NotFound", {}, NoEvent)
               [] file # NoFile /\ file.isPrivate /\ ~isOwnerOfFile ->
                    Exchange("versions", caller, id, <<>>, "AccessDenied", {}, NoEvent)
               [] OTHER ->
                    Exchange("versions", caller, id, <<>>, "OK",
                             {IF isOwnerOfFile THEN v ELSE WithoutPin(v) :
                                 v \in getFileVersions(id)},
                             NoEvent)
    /\ UNCHANGED <<files, downloadLogs, reqs, now, objects, tags, fileTags>>

\* POST /api/files/metadata (isAuthenticated): the tags of the body are
\* attached to the id of the body, whoever owns it and whether or not it is
\* stored; then the row is read with its tags (no row: the handler's catch
\* answers 500), answered and broadcast.
AttachTags(user, id, tagNames) ==
    /\ LET db == addTagsToFile([tags |-> tags, fileTags |-> fileTags], id, tagNames)
           file == getFile(id)
       IN  /\ tags' = db.tags
           /\ fileTags' = db.fileTags
           /\ exchange' =
                 IF file = NoFile
                 THEN Exchange("metadata", user, id, tagNames, "ServerError", {},
                               NoEvent)
                 ELSE Exchange("metadata", user, id, tagNames, "OK",
                               {getFileWithTags(db, file)},
                               broadcastUpdateFile(getFileWithTags(db, file)))
    /\ UNCHANGED <<files, downloadLogs, reqs, objects>>

\* DELETE /api/files/bulk (isAuthenticated), the loop over the ids of the
\* body: an id with no row is passed over, a row of another user is an
\* error, a row of the caller is deleted as DELETE /api/files/:id deletes
\* it (released: the ids whose deleteFromS3 does not throw).
RECURSIVE bulkDelete(_, _, _, _)
bulkDelete(st, userId, ids, released) ==
    IF ids = <<>> THEN st
    ELSE LET id == Head(ids)
             found == {f \in st.files : f.id = id}
             file == CHOOSE f \in found : TRUE
             next ==
                 CASE found = {} -> st
                   [] found # {} /\ file.userId # userId ->
                        [st EXCEPT !.errors = Append(@, id)]
                   [] found # {} /\ file.userId = userId
                         /\ ~goesOnAfterS3(id \in released) ->
                        [st EXCEPT !.errors = Append(@, id)]
                   [] OTHER ->
                        [st EXCEPT !.objects = IF id \in released THEN @ \ {id}
                                               ELSE @,
                                   !.files = @ \ {file},
                                   !.events = @ \cup broadcastDeleteFile(id),
                                   !.successCount = @ + 1]
         IN  bulkDelete(next, userId, Tail(ids), released)

\* 400 for an empty list; otherwise 207 with successCount and the errors
\* when some id was refused, 200 with the number of deleted files when none
\* was (the body has no errors, modelled as the empty list).
BulkDelete(user, ids, released) ==
    /\ LET st == bulkDelete([files |-> files, objects |-> objects, events |-> {},
                             errors |-> <<>>, successCount |-> 0],
                            user, ids, released)
       IN  IF ids = <<>>
           THEN /\ exchange' = Exchange("bulk", user, NULL, <<>>, "BadRequest", {},
                                        NoEvent)
                /\ UNCHANGED <<files, objects>>
           ELSE /\ files' = st.files
                /\ objects' = st.objects
                /\ exchange' = Exchange("bulk", user, NULL, ids,
                                        IF st.errors # <<>> THEN "MultiStatus"
                                        ELSE "OK",
                                        {}, st.events)
                                  @@ [successCount |-> st.successCount,
                                      errors |-> st.errors]
    /\ UNCHANGED <<downloadLogs, reqs, tags, fileTags>>

\* The clock during a lifecycle operation: it either stays within the same
\* second, or a later second is reached.
ClockStays == now' = now
ClockAdvances == now < MaxTime /\ now' = now + 1

(***************************************************************************)
(* Lineages as the data model defines them: the records connected through  *)
(* parentId links between stored records, in either direction.             *)
(***************************************************************************)
ParentLinks(all) ==
    {<<f.id, f.parentId>> : f \in {g \in all : \E h \in all : h.id = g.parentId}}

RECURSIVE Connected(_, _)
Connected(links, ids) ==
    LET more == ids \cup {e[2] : e \in {x \in links : x[1] \in ids}}
                    \cup {e[1] : e \in {x \in links : x[2] \in ids}}
    IN  IF more = ids THEN ids ELSE Connected(links, more)

Lineage(all, id) == {f \in all : f.id \in Connected(ParentLinks(all), {id})}

RECURSIVE Ancestors(_, _)
Ancestors(links, ids) ==
    LET more == ids \cup {e[2] : e \in {x \in links : x[1] \in ids}}
    IN  IF more = ids THEN ids ELSE Ancestors(links, more)

Acyclic(all, members) ==
    \A f \in members :
        f.id \notin Ancestors(ParentLinks(all),
                              {e[2] : e \in {x \in ParentLinks(all) : x[1] = f.id}})

DistinctCreatedAt(members) ==
    \A f, g \in members : f # g => f.createdAt # g.createdAt

LineageHead(all, id) ==
    CHOOSE f \in Lineage(all, id) :
        \A g \in Lineage(all, id) : g.createdAt <= f.createdAt

(***************************************************************************)
(* SpecLineage: files are created and deleted while one request resolves   *)
(* the policy that governs it.                                             *)
(***************************************************************************)
Open == Policy(FALSE, NullPin, NullInt, NullInt, NullInt)
Guarded == Policy(TRUE, Pin1234, NullInt, NullInt, MaxLimit)
Pinned == Policy(FALSE, Pin1234, NullInt, NullInt, NullInt)

InitLineage ==
    /\ files = {}
    /\ downloadLogs = <<>>
    /\ reqs = [r \in ReqIds |-> IdleRequest]
    /\ now = 0
    /\ InitRest

NextLineage ==
    \/ \E id \in FileIds, parentId \in FileIds \cup {NULL}, policy \in {Open, Guarded} :
          CreateFile("u1", id, parentId, policy) /\ ClockAdvances
    \/ \E id \in FileIds :
          getFile(id) # NoFile /\ DeleteFile("u1", id, TRUE) /\ ClockAdvances
    \/ \E ep \in Endpoints, id \in FileIds :
          GetFile(1, ep, id, "u2", "ip1", FALSE, Pin1234)
    \/ Step(1)

SpecLineage == InitLineage /\ [][NextLineage]_vars

(***************************************************************************)
(* SpecListing: two users create, update and delete files of their own;    *)
(* anyone lists the files, and u2 reads version histories.                 *)
(***************************************************************************)
Owns(user, id) == getFile(id) # NoFile /\ getFile(id).userId = user

InitListing ==
    /\ files = {}
    /\ downloadLogs = <<>>
    /\ reqs = [r \in ReqIds |-> IdleRequest]
    /\ now = 0
    /\ InitRest

\* A read leaves the store as it was, so a read that follows another read
\* answers what a read in its place would have: reads are taken in the
\* states the writes produce.
AfterWrite == exchange.op \notin {"list", "stats", "versions"}

NextListing ==
    \/ \E user \in Users, id \in FileIds, parentId \in FileIds \cup {NULL},
          policy \in {Open, Guarded} :
            CreateFile(user, id, parentId, policy) /\ ClockAdvances
    \/ \E user \in Users, id \in FileIds, policy \in {Guarded, Pinned} :
          Owns(user, id) /\ UpdateFile(user, id, policy) /\ ClockAdvances
    \/ \E user \in Users, id \in FileIds :
          Owns(user, id) /\ DeleteFile(user, id, TRUE) /\ ClockAdvances
    \/ /\ AfterWrite
       /\ \/ \E caller \in Users \cup {NULL} : ListFiles(caller)
          \/ \E user \in Users : GetStats(user)
          \/ \E id \in FileIds : GetVersions("u2", id)

SpecListing == InitListing /\ [][NextListing]_vars

(***************************************************************************)
(* SpecOwner: u1 and u2 each have a stored file; either of them updates,   *)
(* deletes (the bucket may fail) or tags either file.                      *)
(***************************************************************************)
OwnerFileIds == {"f1", "f2"}

\* Tag names as clients send them: case and whitespace variants of one
\* name, and another name.
TagNames == {<<"A">>, <<"a", " ">>, <<"b">>}

RECURSIVE Lists(_, _)
Lists(elems, len) ==
    IF len = 0 THEN {<<>>}
    ELSE Lists(elems, len - 1)
            \cup {<<e>> \o l : e \in elems,
                               l \in {x \in Lists(elems, len - 1) : Len(x) = len - 1}}

InitOwner ==
    /\ files = {File("f1", "u1", TRUE, Pin1234, NullInt, NullInt, NullInt, 0, 0, NULL),
                File("f2", "u2", FALSE, NullPin, NullInt, NullInt, NullInt, 0, 1, NULL)}
    /\ downloadLogs = <<>>
    /\ reqs = [r \in ReqIds |-> IdleRequest]
    /\ now = 2
    /\ InitRest

NextOwner ==
    \/ \E user \in Users, id \in OwnerFileIds :
          UpdateFile(user, id, Pinned) /\ ClockStays
    \/ \E user \in Users, id \in OwnerFileIds, released \in BOOLEAN :
          DeleteFile(user, id, released) /\ ClockStays
    \/ \E user \in Users, ids \in Lists(OwnerFileIds, 2), released \in {{}, OwnerFileIds} :
          BulkDelete(user, ids, released) /\ ClockStays
    \/ \E user \in Users, id \in OwnerFileIds, name \in TagNames :
          AttachTags(user, id, <<name>>) /\ ClockStays

SpecOwner == InitOwner /\ [][NextOwner]_vars

(***************************************************************************)
(* SpecTags: u1 tags the two files with lists of names, in any order and   *)
(* any number of times, and may delete the file that is theirs.            *)
(***************************************************************************)
NextTags ==
    \/ \E id \in OwnerFileIds, tagNames \in Lists(TagNames, MaxNames) :
          AttachTags("u1", id, tagNames) /\ ClockStays
    \/ DeleteFile("u1", "f1", TRUE) /\ ClockStays

SpecTags == InitOwner /\ [][NextTags]_vars

(***************************************************************************)
(* Spec: concurrent downloads of a two-version lineage, and its owner      *)
(* deleting one of the two records meanwhile.                              *)
(***************************************************************************)
Init ==
    /\ \E policy \in {Open, Guarded} :
          files = {File("f1", "u1", FALSE, NullPin, NullInt, NullInt, NullInt, 0, 0, NULL),
                   File("f2", "u1", policy.isPrivate, policy.pin, policy.expiresAt,
                        policy.maxDownloads, policy.maxDownloadsPerUser, 0, 1, "f1")}
    /\ downloadLogs = <<>>
    /\ reqs = [r \in ReqIds |-> IdleRequest]
    /\ now = 1
    /\ InitRest

\* Requests are numbered in their order of arrival.
Arrives(r) == \A s \in ReqIds : s < r => reqs[s].pc # "idle"

Next ==
    \/ \E r \in ReqIds, ep \in {"api", "link"}, id \in {"f1", "f2"},
          isPreview \in BOOLEAN :
            Arrives(r) /\ GetFile(r, ep, id, "u2", "ip1", isPreview, Pin1234)
    \/ \E r \in ReqIds : Step(r)
    \/ \E id \in {"f1", "f2"} :
          /\ \A f \in {"f1", "f2"} : getFile(f) # NoFile
          /\ DeleteFile("u1", id, TRUE) /\ ClockStays

Spec == Init /\ [][Next]_vars

(***************************************************************************)
(* SpecQuota: one user downloads the records of a two-version lineage, one *)
(* request after the other; the head carries a download limit.             *)
(***************************************************************************)
GlobalLimit == Policy(FALSE, NullPin, NullInt, MaxLimit, NullInt)
PerUserLimit == Policy(FALSE, NullPin, NullInt, NullInt, MaxLimit)

InitQuota ==
    /\ \E policy \in {GlobalLimit, PerUserLimit} :
          files = {File("f1", "u1", FALSE, NullPin, NullInt, NullInt, NullInt, 0, 0, NULL),
                   File("f2", "u1", policy.isPrivate, policy.pin, policy.expiresAt,
                        policy.maxDownloads, policy.maxDownloadsPerUser, 0, 1, "f1")}
    /\ downloadLogs = <<>>
    /\ reqs = [r \in ReqIds |-> IdleRequest]
    /\ now = 1
    /\ InitRest

\* A request arrives when every earlier one has been answered.
ArrivesAlone(r) ==
    /\ Arrives(r)
    /\ \A s \in ReqIds : reqs[s].pc \in {"idle", "done"}

NextQuota ==
    \/ \E r \in ReqIds, ep \in Endpoints, id \in {"f1", "f2"} :
          ArrivesAlone(r) /\ GetFile(r, ep, id, "u2", "ip1", FALSE, NullPin)
    \/ \E r \in ReqIds : Step(r)

SpecQuota == InitQuota /\ [][NextQuota]_vars

(***************************************************************************)
(* SpecRace: overlapping downloads of one file that is one download short  *)
(* of its limit, without or with a per-user limit the requests stay below. *)
(***************************************************************************)
InitRace ==
    /\ \E maxDownloadsPerUser \in {NullInt, MaxRequests} :
          files = {File("f1", "u1", FALSE, NullPin, NullInt, MaxLimit,
                        maxDownloadsPerUser, MaxLimit - 1, 0, NULL)}
    /\ downloadLogs = <<>>
    /\ reqs = [r \in ReqIds |-> IdleRequest]
    /\ now = 1
    /\ InitRest

NextRace ==
    \/ \E r \in ReqIds, ep \in Endpoints :
          Arrives(r) /\ GetFile(r, ep, "f1", "u2", "ip1", FALSE, NullPin)
    \/ \E r \in ReqIds : Step(r)

SpecRace == InitRace /\ [][NextRace]_vars

(***************************************************************************)
(* SpecFaults: requests answered one after the other, for a file with a   *)
(* per-user limit, a file whose limit is used up and a missing file, as    *)
(* downloads and as previews; the presigning and the log INSERT may fail.  *)
(***************************************************************************)
InitFaults ==
    /\ files = {File("f1", "u1", FALSE, NullPin, NullInt, NullInt, MaxLimit, 0, 0, NULL),
                File("f2", "u1", FALSE, NullPin, NullInt, MaxLimit, NullInt,
                     MaxLimit, 0, NULL)}
    /\ downloadLogs = <<>>
    /\ reqs = [r \in ReqIds |-> IdleRequest]
    /\ now = 1
    /\ InitRest

NextFaults ==
    \/ \E r \in ReqIds, ep \in Endpoints, id \in FileIds, isPreview \in BOOLEAN :
          ArrivesAlone(r) /\ GetFile(r, ep, id, "u2", "ip1", isPreview, NullPin)
    \/ \E r \in ReqIds : Step(r)
    \/ \E r \in ReqIds : PresignFails(r)
    \/ \E r \in ReqIds : InsertDownloadLogFails(r)

SpecFaults == InitFaults /\ [][NextFaults]_vars

(***************************************************************************)
(* SpecResolve: the two lineage resolvers applied to any set of up to      *)
(* three records, whatever their parent links: chains, links to missing    *)
(* records, self-references and cycles.                                    *)
(***************************************************************************)
RecordSets ==
    UNION {{{File(id, "u1", FALSE, NullPin, NullInt, NullInt, NullInt, 0,
                  createdAt[id], parentId[id]) : id \in ids} :
              createdAt \in [ids -> 0..MaxCreatedAt],
              parentId \in [ids -> FileIds \cup {NULL}]} :
           ids \in (SUBSET FileIds) \ {{}}}

InitResolve ==
    /\ files \in RecordSets
    /\ downloadLogs = <<>>
    /\ reqs = [r \in ReqIds |-> IdleRequest]
    /\ now = MaxCreatedAt
    /\ InitRest

NextResolve ==
    \/ ListFiles("u1")
    \/ \E id \in FileIds : GetVersions("u1", id)

SpecResolve == InitResolve /\ [][NextResolve]_vars

(***************************************************************************)
(* Claims.                                                                 *)
(***************************************************************************)
\* The policy a request was decided with: the securityPolicy the handler
\* held when it made its checks.
Resolves(r) == reqs[r].pc = "latest" /\ reqs'[r].pc # "latest"

WellFormedLineage(all, id) ==
    /\ \E f \in all : f.id = id
    /\ Acyclic(all, Lineage(all, id))
    /\ DistinctCreatedAt(Lineage(all, id))

NoDanglingParent(all, id) ==
    \A f \in Lineage(all, id) :
        f.parentId # NULL => \E g \in all : g.id = f.parentId

\* The request r leaves the resolution step governed by the record h: it goes
\* on holding h as its policy, or it is answered with the denial h yields.
GovernedBy(r, h) ==
    IF reqs'[r].pc = "done"
    THEN reqs'[r].outcome =
            checks(reqs[r].ep, h, reqs[r].user # NULL /\ reqs[r].user = h.userId,
                   reqs[r].user # NULL, reqs[r].isPreview, reqs[r].pin, now)
    ELSE reqs'[r].securityPolicy = h

\* C1 (head precedence): whenever a handler resolves the governing policy
\* for a stored record whose lineage is acyclic with distinct createdAt
\* values, the policy it decides with is the lineage's most recently
\* created record.
C1_HeadPrecedence ==
    [][\A r \in ReqIds :
          (Resolves(r) /\ WellFormedLineage(files, reqs[r].id))
             => GovernedBy(r, LineageHead(files, reqs[r].id))]_vars

\* The same statement for lineages none of whose members points to a
\* deleted parent.
C1_HeadPrecedenceNoDangling ==
    [][\A r \in ReqIds :
          (/\ Resolves(r)
           /\ WellFormedLineage(files, reqs[r].id)
           /\ NoDanglingParent(files, reqs[r].id))
             => GovernedBy(r, LineageHead(files, reqs[r].id))]_vars

(***************************************************************************)
(* The rules as stated, evaluated on the head of the requested record's    *)
(* lineage at the moment the handler decides.                              *)
(***************************************************************************)
PinDenials == {"AccessDenied", "InvalidPin", "PinPage", "PinRedirect"}
AuthDenials == {"AuthRequired", "LoginRedirect"}

\* A request is decided once its checks are over: it was denied, or it went
\* on to obtain the download capability.
Decided(q) ==
    /\ q.pc \in {"presign", "increment", "log", "select", "done"}
    /\ q.outcome # "NotFound"
Decides(r) == ~Decided(reqs[r]) /\ Decided(reqs'[r])
Verdict(q) ==
    IF q.pc = "done" /\ q.outcome \notin {"Granted", "ServerError"}
    THEN q.outcome ELSE "pass"

Owner(q, h) == q.user # NULL /\ q.user = h.userId
HeadHasPin(h) == h.pin # NullPin /\ h.pin # EmptyString
Protected(h) == h.isPrivate \/ HeadHasPin(h)
PinOK(q, h) == ~Protected(h) \/ (HeadHasPin(h) /\ q.pin = h.pin)
Logged(fileId, user) ==
    Cardinality({i \in DOMAIN downloadLogs :
        downloadLogs[i].fileId = fileId /\ downloadLogs[i].userId = user})

VetoFails(q, h) == q.isPreview /\ Protected(h)
PinFails(q, h) == ~Owner(q, h) /\ ~PinOK(q, h)
ExpiryFails(h) == h.expiresAt # NullInt /\ h.expiresAt < now
LimitFails(q, h) ==
    ~q.isPreview /\ h.maxDownloads # NullInt /\ h.downloadCount >= h.maxDownloads
PerUserFails(q, h) ==
    /\ ~q.isPreview
    /\ h.maxDownloadsPerUser # NullInt
    /\ (q.user = NULL \/ Logged(h.id, q.user) >= h.maxDownloadsPerUser)

RuleOf(verdict) ==
    CASE verdict = "PreviewDisabled" -> 1
      [] verdict \in PinDenials -> 2
      [] verdict = "LinkExpired" -> 3
      [] verdict = "LimitReached" -> 4
      [] verdict \in AuthDenials \cup {"UserLimitReached"} -> 5
      [] OTHER -> 6

FirstFailingRule(q, h) ==
    CASE VetoFails(q, h) -> 1
      [] ~VetoFails(q, h) /\ PinFails(q, h) -> 2
      [] ~VetoFails(q, h) /\ ~PinFails(q, h) /\ ExpiryFails(h) -> 3
      [] OTHER -> IF LimitFails(q, h) THEN 4
                  ELSE IF PerUserFails(q, h) THEN 5 ELSE 6

NoZeroLimit(h) == h.maxDownloads # 0 /\ h.maxDownloadsPerUser # 0

\* C2 (rule ordering): at every download endpoint the reported outcome is
\* the denial of the earliest failing rule in the order preview veto,
\* privacy/PIN, expiration, download limit, per-user limit (stated for heads
\* whose limits are not zero).
C2_RuleOrder ==
    [][\A r \in ReqIds :
          LET q == reqs'[r]
              h == LineageHead(files, q.id)
          IN  (Decides(r) /\ NoZeroLimit(h))
                 => RuleOf(Verdict(q)) = FirstFailingRule(q, h)]_vars

\* The same statement for the two endpoints other than /link/:id.
C2_RuleOrderExceptLink ==
    [][\A r \in ReqIds :
          LET q == reqs'[r]
              h == LineageHead(files, q.id)
          IN  (Decides(r) /\ NoZeroLimit(h) /\ q.ep # "link")
                 => RuleOf(Verdict(q)) = FirstFailingRule(q, h)]_vars

\* C3 (privacy/PIN rule for non-owners): a non-owner whose request reaches
\* the privacy/PIN rule passes it exactly when the head is neither private
\* nor PIN-protected, or the head has a PIN and the supplied PIN equals it;
\* otherwise the outcome is a PIN denial (never an error or a grant), and a
\* private head without a PIN denies every non-owner.
ReachesPinRule(q, h) ==
    ~VetoFails(q, h) /\ ~(q.ep = "link" /\ ExpiryFails(h))

C4_PreviewVeto ==
    [][\A r \in ReqIds :
          LET q == reqs'[r]
              h == LineageHead(files, q.id)
          IN  (reqs'[r] # reqs[r] /\ q.pc # "idle" /\ q.outcome # "NotFound"
               /\ q.isPreview /\ Protected(h))
                 => /\ files' = files
                    /\ downloadLogs' = downloadLogs
                    /\ q.pc \in {"latest", "done"}
                    /\ q.pc = "done" => q.outcome = "PreviewDisabled"]_vars

C4_Witness ==
    \E r \in ReqIds :
        /\ reqs[r].pc = "done"
        /\ reqs[r].isPreview
        /\ reqs[r].user = LineageHead(files, reqs[r].id).userId
        /\ reqs[r].pin = LineageHead(files, reqs[r].id).pin
        /\ reqs[r].pin = Pin1234
        /\ reqs[r].outcome = "PreviewDisabled"

\* C5 (scope of the ownership bypass): on a non-preview request the owner
\* of the head is never denied by the privacy/PIN rule, and is still denied
\* when the head has expired and when a download limit is reached.
C5_OwnerBypass ==
    [][\A r \in ReqIds :
          LET q == reqs'[r]
              h == LineageHead(files, q.id)
          IN  (Decides(r) /\ Owner(q, h) /\ ~q.isPreview)
                 => /\ Verdict(q) \notin PinDenials
                    /\ ExpiryFails(h) => Verdict(q) = "LinkExpired"
                    /\ (~ExpiryFails(h) /\ LimitFails(q, h))
                          => Verdict(q) = "LimitReached"]_vars

\* The same statement with a zero maxDownloads read as no limit.
C5_OwnerBypassNoZero ==
    [][\A r \in ReqIds :
          LET q == reqs'[r]
              h == LineageHead(files, q.id)
          IN  (Decides(r) /\ Owner(q, h) /\ ~q.isPreview)
                 => /\ Verdict(q) \notin PinDenials
                    /\ ExpiryFails(h) => Verdict(q) = "LinkExpired"
                    /\ (~ExpiryFails(h) /\ LimitFails(q, h) /\ h.maxDownloads # 0)
                          => Verdict(q) = "LimitReached"]_vars

\* C6 (download-limit rule): for every head whose maxDownloads is not null,
\* a request that passes the earlier rules is denied by the limit exactly
\* when it is no preview and downloadCount >= maxDownloads.
C6_DownloadLimit ==
    [][\A r \in ReqIds :
          LET q == reqs'[r]
              h == LineageHead(files, q.id)
          IN  (/\ Decides(r)
               /\ h.maxDownloads # NullInt
               /\ ~VetoFails(q, h) /\ ~PinFails(q, h) /\ ~ExpiryFails(h))
                 => ((Verdict(q) = "LimitReached") <=> LimitFails(q, h))]_vars

C6_DownloadLimitNoZero ==
    [][\A r \in ReqIds :
          LET q == reqs'[r]
              h == LineageHead(files, q.id)
          IN  (/\ Decides(r)
               /\ h.maxDownloads # NullInt /\ h.maxDownloads # 0
               /\ ~VetoFails(q, h) /\ ~PinFails(q, h) /\ ~ExpiryFails(h))
                 => ((Verdict(q) = "LimitReached") <=> LimitFails(q, h))]_vars

\* C7 (per-user limit rule): when the head's maxDownloadsPerUser is not
\* null, a non-preview request that was not denied by an earlier rule is
\* denied as authentication-required if anonymous, and if authenticated
\* passes exactly when the user's logged downloads of the head id are below
\* maxDownloadsPerUser.
C7_PerUserLimit ==
    [][\A r \in ReqIds :
          LET q == reqs'[r]
              h == LineageHead(files, q.id)
          IN  (/\ Decides(r)
               /\ h.maxDownloadsPerUser # NullInt
               /\ ~q.isPreview
               /\ RuleOf(Verdict(q)) >= 5)
                 => /\ q.user = NULL => Verdict(q) \in AuthDenials
                    /\ q.user # NULL =>
                          ((Verdict(q) = "pass")
                              <=> Logged(h.id, q.user) < h.maxDownloadsPerUser)]_vars

C7_PerUserLimitNoZero ==
    [][\A r \in ReqIds :
          LET q == reqs'[r]
              h == LineageHead(files, q.id)
          IN  (/\ Decides(r)
               /\ h.maxDownloadsPerUser # NullInt /\ h.maxDownloadsPerUser # 0
               /\ ~q.isPreview
               /\ RuleOf(Verdict(q)) >= 5)
                 => /\ q.user = NULL => Verdict(q) \in AuthDenials
                    /\ q.user # NULL =>
                          ((Verdict(q) = "pass")
                              <=> Logged(h.id, q.user) < h.maxDownloadsPerUser)]_vars

(***************************************************************************)
(* Counters and the download log under overlapping requests.               *)
(***************************************************************************)
Increments(r) == reqs[r].pc = "increment" /\ reqs'[r].pc = "log"
Bumped(all, id) ==
    {IF f.id = id THEN [f EXCEPT !.downloadCount = f.downloadCount + 1] ELSE f :
        f \in all}
RowChanged == \E f \in files, g \in files' : g.id = f.id /\ g # f
GrantedDownload(q) == q.pc = "done" /\ q.outcome = "Granted" /\ ~q.isPreview
PastIncrement(q) == q.pc \in {"log", "select"} \/ GrantedDownload(q)
AllDone == \A r \in ReqIds : reqs[r].pc \in {"idle", "done"}

\* C8 (counter targets the requested record): the counting step of a
\* download of X adds exactly 1 to the downloadCount of X and leaves every
\* other record, the head of the lineage included, as it was; no other step
\* of any request changes a record, and a non-preview download is granted
\* only after its counting step.
C8_CounterTarget ==
    [][/\ \A r \in ReqIds : Increments(r) => files' = Bumped(files, reqs[r].id)
       /\ RowChanged => \E r \in ReqIds : Increments(r) /\ ~reqs[r].isPreview
       /\ \A r \in ReqIds :
            (GrantedDownload(reqs'[r]) /\ ~GrantedDownload(reqs[r]))
               => reqs[r].pc = "select"]_vars

C8_Witness ==
    \E r \in ReqIds :
        /\ GrantedDownload(reqs[r])
        /\ reqs[r].id = "f1"
        /\ LineageHead(files, "f1").id = "f2"
        /\ \E f \in files : f.id = "f1" /\ f.downloadCount = 1
        /\ \E f \in files : f.id = "f2" /\ f.downloadCount = 0

\* C9 (download log): once all requests are answered, the number of log
\* entries of a file equals the number of granted non-preview downloads of
\* it.
C9_LogPerGrantedDownload ==
    AllDone =>
        \A id \in FileIds :
            Cardinality({i \in DOMAIN downloadLogs : downloadLogs[i].fileId = id})
              = Cardinality({r \in ReqIds :
                    reqs[r].id = id /\ GrantedDownload(reqs[r])})

\* The same count for the files that are still stored.
C9_LogPerGrantedDownloadStored ==
    AllDone =>
        \A f \in files :
            Cardinality({i \in DOMAIN downloadLogs : downloadLogs[i].fileId = f.id})
              = Cardinality({r \in ReqIds :
                    reqs[r].id = f.id /\ GrantedDownload(reqs[r])})

\* C10 (no lost counter updates): however the steps of concurrent downloads
\* of one record interleave, its downloadCount is its initial value 0 plus
\* the number of downloads that have passed their counting step; when all
\* are answered that is the number of granted non-preview downloads.
C10_NoLostUpdates ==
    \A f \in files :
        f.downloadCount
          = Cardinality({r \in ReqIds : reqs[r].id = f.id /\ PastIncrement(reqs[r])})

C10_Witness ==
    \E f \in files :
        /\ f.downloadCount = MaxRequests
        /\ \A r \in ReqIds : reqs[r].id = f.id /\ reqs[r].pc = "log"

(***************************************************************************)
(* Listings, sanitization and the integrity of the stored lineages.        *)
(***************************************************************************)
Listed == exchange.op = "list" /\ exchange.status = "OK"

\* C11 (listing visibility): the file list never holds a private record owned
\* by someone else: an anonymous caller is given public records only, an
\* authenticated caller public records and their own; every listed record
\* is a stored one.
C11_ListingVisibility ==
    Listed =>
        \A r \in exchange.rows :
            /\ \E f \in files : r = sanitizeFor(exchange.caller, f)
            /\ r.isPrivate => exchange.caller # NULL /\ r.userId = exchange.caller

\* u2 lists while u1 keeps a private record: u2's own private record is
\* listed, u1's is not.
C11_Witness ==
    /\ Listed
    /\ exchange.caller = "u2"
    /\ \E r \in exchange.rows : r.isPrivate /\ r.userId = "u2"
    /\ \E f \in files :
          f.isPrivate /\ f.userId = "u1" /\ \A r \in exchange.rows : r.id # f.id

\* The stored records are well formed when every parentId names a stored
\* record, no record is its own ancestor and no two records share a
\* createdAt.
WellFormed(all) ==
    /\ \A f \in all : f.parentId # NULL => \E g \in all : g.id = f.parentId
    /\ Acyclic(all, all)
    /\ DistinctCreatedAt(all)

ListedOf(members) == {r \in exchange.rows : \E f \in members : f.id = r.id}

\* C12 (a lineage is listed only through its head): when the newest stored
\* record of a lineage is private and not the caller's, the file list holds
\* no record of that lineage, even if an older member is public; to the
\* head's owner the list shows exactly the head.
C12_HeadOnly ==
    Listed /\ WellFormed(files) =>
        \A f \in files :
            LET head == LineageHead(files, f.id)
                listed == ListedOf(Lineage(files, f.id))
            IN  /\ head.isPrivate /\ head.userId # exchange.caller => listed = {}
                /\ exchange.caller # NULL /\ head.userId = exchange.caller
                      => listed = {head}

\* C12, the owner's half alone.
C12_HeadOnlyOwner ==
    Listed /\ WellFormed(files) =>
        \A f \in files :
            LET head == LineageHead(files, f.id)
            IN  exchange.caller # NULL /\ head.userId = exchange.caller
                  => ListedOf(Lineage(files, f.id)) = {head}

SameLineage(all, a, b) == b \in Connected(ParentLinks(all), {a})

\* C13 (one entry per lineage): on acyclic data neither the file list, for
\* any caller, nor the caller's own files hold two records of one lineage,
\* a lineage being the stored records connected through parentId.
C13_OneEntryPerLineage ==
    exchange.op \in {"list", "stats"} /\ WellFormed(files) =>
        \A r1, r2 \in exchange.rows :
            r1.id # r2.id => ~SameLineage(files, r1.id, r2.id)

\* C13 for the caller's own files alone.
C13_OneEntryPerLineageOwned ==
    exchange.op = "stats" /\ WellFormed(files) =>
        \A r1, r2 \in exchange.rows :
            r1.id # r2.id => ~SameLineage(files, r1.id, r2.id)

\* The store with the PIN of every record that is not the caller's set anew.
Repinned(all, caller, pin) ==
    {IF caller # NULL /\ f.userId = caller THEN f ELSE [f EXCEPT !.pin = pin] :
        f \in all}

\* The store with every record ownerless (rows stored with a NULL user_id).
Ownerless(all) == {[f EXCEPT !.userId = NULL] : f \in all}

\* C14 (listing sanitization): a listed record that is not the caller's own
\* (the caller may be anonymous, the record ownerless) has no pin field, the
\* caller's own records are listed as stored, PIN included; and what a
\* caller is listed is what they would be listed whatever the PINs of the
\* other users' records were.
C14_ListingSanitization ==
    Listed =>
        /\ \A r \in exchange.rows :
              IF exchange.caller # NULL /\ r.userId = exchange.caller
              THEN r \in files /\ "pin" \in DOMAIN r
              ELSE "pin" \notin DOMAIN r
        /\ \A rows \in getFiles(Ownerless(files), exchange.caller) :
              \A r \in rows : "pin" \notin DOMAIN r
        /\ \A pin \in StoredPins :
              exchange.rows \in getFiles(Repinned(files, exchange.caller, pin),
                                        exchange.caller)

\* u2 is listed a record of u1 that is stored with a PIN, and a record of
\* their own with its PIN.
C14_Witness ==
    /\ Listed
    /\ exchange.caller = "u2"
    /\ \E r \in exchange.rows, f \in files :
          r.userId = "u1" /\ f.id = r.id /\ f.pin = Pin1234
    /\ \E r \in exchange.rows : r.userId = "u2" /\ r.pin = Pin1234

\* What a record sent out reveals of the stored row it renders.
RevealsPin(r) == "pin" \in DOMAIN r /\ r.pin # NullPin
RevealsOwner(r) == "userId" \in DOMAIN r /\ r.userId # NULL

\* The records a response hands to the caller who is not their owner, and
\* the records the broadcasts hand to every connected client.
SentToNonOwner ==
    {r \in exchange.rows : exchange.caller = NULL \/ r.userId # exchange.caller}
        \cup {e.payload : e \in {x \in exchange.events :
                                     x.type \in {"NEW_FILE", "UPDATE_FILE"}}}

\* C15 (no leak to non-owners on any channel): nothing handed to a party
\* that is not the file's owner, be it the file list, a version history,
\* or a change event broadcast to the connected clients, shows the PIN or
\* the owner id of a private file.
C15_NoLeak ==
    \A r \in SentToNonOwner : r.isPrivate => ~RevealsPin(r) /\ ~RevealsOwner(r)

\* C15 for the PIN alone.  It does not hold either: the owner of a requested
\* record is answered its whole version history unsanitized, other users'
\* private versions included.
C15_NoPinLeak ==
    \A r \in SentToNonOwner : r.isPrivate => ~RevealsPin(r)

\* C15 for the responses alone, broadcasts left aside.  It does not hold
\* either: the version history of a public record names the owner of its
\* private versions.
C15_NoLeakInResponses ==
    \A r \in exchange.rows :
        (exchange.caller = NULL \/ r.userId # exchange.caller) /\ r.isPrivate
            => ~RevealsPin(r) /\ ~RevealsOwner(r)

\* C16 (referential integrity of parent links): after any sequence of
\* creates, updates and deletes, the parentId of every stored record, if
\* present, is the id of a stored record.
C16_ReferentialIntegrity ==
    \A f \in files : f.parentId # NULL => \E g \in files : g.id = f.parentId

\* C17 (acyclic parent links): after any sequence of creates (the id and the
\* parentId supplied by the client), updates and deletes, no stored record
\* reaches itself by following parentId links.
C17_AcyclicParentLinks == Acyclic(files, files)

\* The tag links of a file, each with the number of times it is stored.
LinksOf(links, id) ==
    {<<l, CopiesIn(l, links)>> : l \in {x \in BagToSet(links) : x.fileId = id}}

Range(seq) == {seq[i] : i \in DOMAIN seq}

\* The request of a step is aimed at the file of the given id.
AimedAt(x, id) ==
    \/ x.op \in {"update", "delete", "metadata"} /\ x.id = id
    \/ x.op = "bulk" /\ id \in Range(x.list)

RecordKept(f) == \E g \in files' : g = [f EXCEPT !.downloadCount = g.downloadCount]
ObjectKept(f) == (f.id \in objects) = (f.id \in objects')

\* C18 (only the owner mutates): a step taken for anyone but the owner of a
\* record leaves the record as it is but for its download counter, and
\* leaves its tag links and its backing object as they are; an update,
\* re-tag or delete aimed at the record is refused.
C18_OnlyOwnerMutates ==
    [][\A f \in files :
          exchange'.caller # f.userId =>
              /\ RecordKept(f)
              /\ LinksOf(fileTags', f.id) = LinksOf(fileTags, f.id)
              /\ ObjectKept(f)
              /\ AimedAt(exchange', f.id)
                    => exchange'.status \in {"PermissionDenied", "MultiStatus"}]_vars

\* C18 for updates and deletes alone, re-tagging left aside.
C18_OnlyOwnerUpdatesAndDeletes ==
    [][\A f \in files :
          exchange'.caller # f.userId /\ exchange'.op # "metadata" =>
              /\ RecordKept(f)
              /\ LinksOf(fileTags', f.id) = LinksOf(fileTags, f.id)
              /\ ObjectKept(f)
              /\ AimedAt(exchange', f.id)
                    => exchange'.status \in {"PermissionDenied", "MultiStatus"}]_vars

\* C19 (delete tolerates storage failure): when the owner deletes a file,
\* by DELETE /api/files/:id or as one id of a bulk delete, the record is
\* gone afterwards, the deletion is broadcast and the request succeeds,
\* whether or not the backing object was released.
C19_DeleteToleratesStorageFailure ==
    [][\A f \in files :
          exchange'.caller = f.userId /\ AimedAt(exchange', f.id)
            /\ exchange'.op \in {"delete", "bulk"} =>
              /\ \A g \in files' : g.id # f.id
              /\ broadcastDeleteFile(f.id) \subseteq exchange'.events
              /\ exchange'.op = "delete" => exchange'.status = "NoContent"
              /\ exchange'.op = "bulk" =>
                    exchange'.status
                      = IF \A id \in Range(exchange'.list) :
                              \A g \in files : g.id = id => g.userId = f.userId
                        THEN "OK" ELSE "MultiStatus"]_vars

\* An owner's delete was answered 204 and broadcast, the record is gone and
\* its object is still in the bucket.
C19_Witness ==
    /\ exchange.op = "delete"
    /\ exchange.status = "NoContent"
    /\ exchange.events = broadcastDeleteFile(exchange.id)
    /\ exchange.id \in objects
    /\ getFile(exchange.id) = NoFile

\* A name that is lower-cased and trimmed: no capital, no space at either end.
IsNormalizedName(name) ==
    /\ \A i \in DOMAIN name : name[i] \notin {"A", "B"}
    /\ name # <<>> => name[1] # " " /\ name[Len(name)] # " "

TagNamesOf(rows) == {t.name : t \in rows}

\* The (file, tag name) pairs that are linked.
LinkedNames(rows, links) ==
    {<<p[1].fileId, p[2].name>> :
        p \in {q \in BagToSet(links) \X rows : q[1].tagId = q[2].id}}

\* One tag per name, every name lower-cased and trimmed, every link stored
\* once and to a stored tag.
TagsWellFormed(rows, links) ==
    /\ \A t1, t2 \in rows : t1.name = t2.name => t1 = t2
    /\ \A t \in rows : IsNormalizedName(t.name)
    /\ \A l \in BagToSet(links) :
          CopiesIn(l, links) = 1 /\ \E t \in rows : t.id = l.tagId

\* C20 (tag attachment depends only on the set of normalized names): after
\* any sequence of tagging requests there is one tag per distinct
\* lower-cased, trimmed name and every (file, tag) pair is linked once; a
\* request adds exactly the tags and the links of the set of its normalized
\* names, whatever their repetitions, case, whitespace and order.
C20_TagAttachment ==
    [][/\ TagsWellFormed(tags', fileTags')
       /\ exchange'.op = "metadata" =>
             LET names == {normalized(name) : name \in Range(exchange'.list)}
             IN  /\ TagNamesOf(tags') = TagNamesOf(tags) \cup names
                 /\ LinkedNames(tags', fileTags')
                       = LinkedNames(tags, fileTags)
                           \cup {<<exchange'.id, name>> : name \in names}]_vars

\* A request names one tag twice, in two spellings, after another request
\* had linked it to the same file in a third: one tag "a", linked once.
C20_Witness ==
    /\ exchange.op = "metadata"
    /\ exchange.list = <<(<<"a", " ">>), (<<"A">>)>>
    /\ Cardinality({t \in tags : t.name = <<"a">>}) = 1
    /\ Cardinality(tags) = 2
    /\ \A t \in tags :
          t.name = <<"a">> => CopiesIn(FileTag(exchange.id, t.id), fileTags) = 1

\* C21 (bulk operations are per-id independent): in a bulk delete over a
\* list of distinct ids a refusal for one id does not keep the caller's other
\* ids from being deleted, and the response accounts for every id of the
\* request: each is named among the errors or counted as deleted.
C21_BulkPerId ==
    [][exchange'.op = "bulk" /\ exchange'.status # "BadRequest"
         /\ Len(exchange'.list) = Cardinality(Range(exchange'.list)) =>
           /\ \A f \in files :
                 f.id \in Range(exchange'.list) /\ f.userId = exchange'.caller
                     => \A g \in files' : g.id # f.id
           /\ exchange'.successCount + Len(exchange'.errors)
                 = Len(exchange'.list)]_vars

\* C21, independence alone: every id of the list that is the caller's is
\* deleted, whatever the other ids of the list are.
C21_BulkIndependent ==
    [][exchange'.op = "bulk" /\ exchange'.status # "BadRequest" =>
           \A f \in files :
               f.id \in Range(exchange'.list) /\ f.userId = exchange'.caller
                   => \A g \in files' : g.id # f.id]_vars

GrantedRequests == {r \in ReqIds : GrantedDownload(reqs[r])}

\* C22 (per-user quota across the lineage): while the head of a lineage
\* has maxDownloadsPerUser = N, of the non-preview requests one
\* authenticated non-owner sends one after the other to any records of the
\* lineage, at most N are granted.
C22_PerUserQuota ==
    \A f \in files :
        LET head == LineageHead(files, f.id)
        IN  head.maxDownloadsPerUser # NullInt =>
                Cardinality({r \in GrantedRequests :
                                \E g \in Lineage(files, f.id) : g.id = reqs[r].id})
                    <= head.maxDownloadsPerUser

\* C22 for requests addressed to the head itself.
C22_PerUserQuotaAtHead ==
    \A f \in files :
        LET head == LineageHead(files, f.id)
        IN  head.maxDownloadsPerUser # NullInt =>
                Cardinality({r \in GrantedRequests : reqs[r].id = head.id})
                    <= head.maxDownloadsPerUser

\* C23 (global quota across the lineage, sequential use): while the head
\* of a lineage has maxDownloads = N and started at downloadCount 0, of the
\* non-preview requests sent one after the other to any records of the
\* lineage at most N are granted.
C23_GlobalQuota ==
    \A f \in files :
        LET head == LineageHead(files, f.id)
        IN  head.maxDownloads # NullInt =>
                Cardinality({r \in GrantedRequests :
                                \E g \in Lineage(files, f.id) : g.id = reqs[r].id})
                    <= head.maxDownloads

\* C23 for requests addressed to the head itself.
C23_GlobalQuotaAtHead ==
    \A f \in files :
        LET head == LineageHead(files, f.id)
        IN  head.maxDownloads # NullInt =>
                Cardinality({r \in GrantedRequests : reqs[r].id = head.id})
                    <= head.maxDownloads

\* C24 (version-injection prevention): after any sequence of creates and
\* deletes by any users, ids being supplied by the client and free again
\* after a delete, no stored record has a parentId that names a record of
\* another user.
C24_NoForeignParent ==
    \A f, g \in files : f.parentId = g.id => f.userId = g.userId

PastCheck(q) == q.pc \in {"presign", "increment", "log", "select"}

\* C25 (soft download limit under concurrency): the limit is tested once,
\* against the counter as it is when the request resolves its policy; a
\* request that passed the test is counted and granted whatever the counter
\* has become meanwhile.  So overlapping requests against a file one
\* download short of its limit can all pass and leave the counter beyond
\* the limit.
C25_SoftLimit ==
    [][\A r \in ReqIds :
          /\ Resolves(r) =>
                (reqs'[r].outcome = "LimitReached"
                    <=> LimitFails(reqs[r], LineageHead(files, reqs[r].id)))
          /\ Increments(r) => files' = Bumped(files, reqs[r].id)
          /\ PastCheck(reqs[r]) /\ reqs'[r].pc = "done"
                => reqs'[r].outcome = "Granted"]_vars

\* Two requests were granted and the counter is one beyond the limit.
C25_Witness ==
    /\ Cardinality(GrantedRequests) >= 2
    /\ \E f \in files :
          f.maxDownloads # NullInt /\ f.downloadCount = f.maxDownloads + 1

\* C26: the log write is best-effort.  When the INSERT of the download log
\* entry fails after the counter was raised, the raised counter stays and
\* the requester is still answered with the redirect, not with an error.
LogInsertFails(r) ==
    /\ reqs[r].pc = "log"
    /\ reqs'[r].pc # "log"
    /\ downloadLogs' = downloadLogs
C26_LogBestEffort ==
    [][\A r \in ReqIds :
          LogInsertFails(r) => /\ files' = files
                               /\ reqs'[r].outcome = "Granted"]_vars

\* C26, the part the handlers keep: a failed INSERT leaves the raised
\* counter as it is.
C26_IncrementKept ==
    [][\A r \in ReqIds : LogInsertFails(r) => files' = files]_vars

\* C27: no side effects without a granted download.  A request that is
\* denied by a rule, is a preview, names a missing file or fails before the
\* download URL is issued ends without having raised a downloadCount,
\* appended a log entry or published a change event: only a request that is
\* no preview and has been handed its URL enters the accounting, and only the
\* accounting steps and the granting answer have an effect.
Ends(r) == reqs[r].pc # "done" /\ reqs'[r].pc = "done"
BeforeAccounting(q) == q.pc \in {"idle", "latest", "count", "presign"}
Accounts(r) == reqs[r].pc \in {"increment", "log"} /\ reqs'[r] # reqs[r]
NoSideEffect ==
    /\ files' = files
    /\ downloadLogs' = downloadLogs
    /\ exchange'.events = NoEvent
C27_NoSideEffects ==
    [][/\ \A r \in ReqIds :
             /\ Ends(r) /\ BeforeAccounting(reqs[r]) => NoSideEffect
             /\ reqs'[r].pc = "increment" /\ reqs[r].pc # "increment"
                   => reqs[r].pc = "presign" /\ ~reqs[r].isPreview
             /\ Ends(r) /\ ~BeforeAccounting(reqs[r]) => ~reqs[r].isPreview
       /\ ~NoSideEffect => \E r \in ReqIds : Accounts(r) \/ GrantedDownload(reqs'[r])]_vars

\* A denied request, a redirected preview and a failed presigning have been
\* answered, with every counter and the log as they were.
DoneWith(outcome, isPreview) ==
    \E r \in ReqIds : /\ reqs[r].pc = "done"
                      /\ reqs[r].outcome = outcome
                      /\ reqs[r].isPreview = isPreview
C27_Witness ==
    /\ DoneWith("LimitReached", FALSE)
    /\ DoneWith("Granted", TRUE) \/ DoneWith("NotFound", FALSE)
          \/ DoneWith("ServerError", FALSE)
    /\ downloadLogs = <<>>
    /\ \A f \in files : f.downloadCount \in {0, f.maxDownloads}

\* C28: cycle safety.  For every record set, with 2-cycles, longer cycles,
\* self-references and chains that lead into a cycle, the loop of findRoot
\* leaves after at most as many iterations as there are records, a listing
\* and a version history are answered without error, the listing gives every
\* record one root whose group holds a record, and the version histories
\* divide the records into lineages that do not overlap.
idsOf(rows) == {f.id : f \in rows}
Halts(all, id) ==
    LET run == findRootRun(childToParent(all), id, {}, Cardinality(all))
    IN  run.halted /\ run.root = findRoot(all, id)
ListingAssignsOneRoot(all) ==
    \A seq \in OrderedByCreatedAt(all) :
        LET rootIds == rootIdsInOrder(childToParent(all), seq, <<>>, <<>>)
            groups == groupByRoot(childToParent(all), seq, <<>>, <<>>)
        IN  /\ DOMAIN rootIds = idsOf(all)
            /\ \A f \in all : /\ rootIds[f.id] \in DOMAIN groups
                               /\ groups[rootIds[f.id]] \in all
VersionsDivide(all) ==
    \A f, g \in all :
        /\ f \in getFileVersions(f.id)
        /\ \/ getFileVersions(f.id) = getFileVersions(g.id)
           \/ getFileVersions(f.id) \cap getFileVersions(g.id) = {}
C28_CycleSafety ==
    /\ exchange.op \in {"list", "versions"} => \A f \in files : Halts(files, f.id)
    /\ exchange.op = "list" =>
          /\ exchange.status = "OK"
          /\ exchange.rows # {}
          /\ ListingAssignsOneRoot(files)
    /\ exchange.op = "versions" /\ getFile(exchange.id) # NoFile =>
          /\ exchange.status = "OK"
          /\ idsOf(exchange.rows) = idsOf(getFileVersions(exchange.id))
          /\ VersionsDivide(files)

\* A record set with a 2-cycle and a record that leads into it has been
\* listed.
InTwoCycle(all, f) ==
    \E g \in all : g # f /\ f.parentId = g.id /\ g.parentId = f.id
C28_Witness ==
    /\ exchange.op = "list"
    /\ exchange.status = "OK"
    /\ \E f, h \in files : /\ InTwoCycle(files, f)
                            /\ ~InTwoCycle(files, h)
                            /\ h.parentId = f.id

\* C29: a dangling parent makes a record its own root.  A record whose
\* parentId names no record of the set, and which no record names as its
\* parent, is a lineage of its own: it appears in the listing, also when
\* another record points to the same missing id.
Dangling(all, f) == f.parentId # NULL /\ \A g \in all : g.id # f.parentId
Childless(all, f) == \A g \in all : g.parentId # f.id
C29_DanglingIsOwnRoot ==
    exchange.op = "list" =>
        \A f \in files :
            Dangling(files, f) /\ Childless(files, f) => f.id \in idsOf(exchange.rows)

\* C29, the part the resolvers keep: a dangling record is listed when no
\* other record points to the same missing id.
C29_LoneDanglingListed ==
    exchange.op = "list" =>
        \A f \in files :
            /\ Dangling(files, f)
            /\ Childless(files, f)
            /\ \A g \in files : g.parentId = f.parentId => g = f
            => f.id \in idsOf(exchange.rows)

\* C30: the two lineage resolvers agree.  For every record set and every
\* order in which the listing can process it, two records get the same
\* rootId in the listing exactly when findRoot of the version history gives
\* them the same root, the record the listing keeps for a record's group is
\* one getLatestVersionFile can return for that record, and so every listed
\* row is the latest version of itself.
AgreeIn(all, seq) ==
    LET rootIds == rootIdsInOrder(childToParent(all), seq, <<>>, <<>>)
        groups == groupByRoot(childToParent(all), seq, <<>>, <<>>)
    IN  /\ \A f, g \in all :
              rootIds[f.id] = rootIds[g.id] <=> findRoot(all, f.id) = findRoot(all, g.id)
        /\ \A f \in all : groups[rootIds[f.id]] \in getLatestVersionFile(f.id)
ListedAreLatest ==
    \A row \in exchange.rows : row.id \in idsOf(getLatestVersionFile(row.id))
C30_ResolversAgree ==
    exchange.op = "list" =>
        /\ \A seq \in OrderedByCreatedAt(files) : AgreeIn(files, seq)
        /\ ListedAreLatest

\* C30, the part the resolvers keep: they agree on record sets whose parent
\* links form no cycle.
C30_ResolversAgreeAcyclic ==
    exchange.op = "list" /\ Acyclic(files, files) =>
        /\ \A seq \in OrderedByCreatedAt(files) : AgreeIn(files, seq)
        /\ ListedAreLatest

====
